---- MODULE Spec2Model ----
(***************************************************************************)
(* Embedded MicroBenchmarks (EMB): the Benchmarker registry and runner,    *)
(* the per-benchmark State with its Welford statistics, the range-for      *)
(* Iterator and the RAII IterationTimer of include/emb/emb.hpp.            *)
(*                                                                         *)
(* The Accumulator is a floating-point type, as in both example programs   *)
(* (double, std::chrono::duration<double, std::nano>).  Its values are     *)
(* modelled as exact rationals [num, den] in lowest terms; den = 0 encodes *)
(* the IEEE results of a division by zero (0/0 = NaN, x/0 = +-Inf).        *)
(* size_t keeps a width of SIZE_WIDTH bits.                                *)
(***************************************************************************)
EXTENDS Integers, Sequences, FiniteSets, TLC

VARIABLES
    default_iterations_,  \* Benchmarker::default_iterations_
    evaluators,           \* Benchmarker::evaluators, a vector of Evaluator
    registered,           \* log of the registerBenchmark calls as the caller made them:
                          \* name, function and the count given, <<k>>, or <<>> if none
    pc,                   \* position of the caller / runBenchmarks / benchmark function
    index,                \* position of the range-for of runBenchmarks in evaluators
    runs,                 \* number of runBenchmarks calls that returned
    s,                    \* the State local to the current step of runBenchmarks
    cursor,               \* Iterator::state of the function's loop: "bound" or "null";
                          \* "none" while no Iterator exists
    timer,                \* the IterationTimer `_` of the current iteration
    flow,                 \* how control leaves the body of the current iteration
    clock,                \* the reading Timer::now() would return
    reports,              \* the calls Reporter::report has received
    samples,              \* the durations fed to update for the current State
    bodies,               \* executions of the loop body for the current State
    outcome,              \* how the current function call went: "running", then
                          \* "completed" (its loop ran to the end), "skipped" (it had
                          \* no loop), "break", "return" or "throw"
    reads                 \* calls of Timer::now() made for the current State

vars == <<default_iterations_, evaluators, registered, pc, index, runs, s, cursor,
          timer, flow, clock, reports, samples, bodies, outcome, reads>>

(***************************************************************************)
(* Bounds of the model.                                                    *)
(***************************************************************************)
MaxBenchmarks == 2       \* registry size explored by Spec
MaxIterations == 2       \* largest iteration count registered under Spec
MaxTicks == 1            \* longest body, in clock ticks, under Spec
StatsMaxIterations == 4  \* largest iteration count registered under SpecStats
StatsMaxTicks == 3       \* longest body, in clock ticks, under SpecStats

RerunMaxBenchmarks == 2  \* registry size explored by SpecRerun
RerunMaxIterations == 1  \* largest iteration count registered under SpecRerun

\* Width of size_t in bits (stddef.h); 16 is the smallest the language allows.
SIZE_WIDTH == 16
SizeMod == 2 ^ SIZE_WIDTH

\* Ticks the clock advances while operator++ and the loop test run.
GapTicks == 1

\* The benchmark functions a caller registers: benchmark_empty is the example's
\* function (a range-for over the State with an empty body); benchmark_custom is
\* any other function of the caller, which may skip the loop, break out of it,
\* return from inside it, or throw from its body.
Functions == {"benchmark_empty", "benchmark_custom"}
ExitPaths == {"normal", "break", "return", "throw"}

(***************************************************************************)
(* Accumulator arithmetic.                                                 *)
(***************************************************************************)
Abs(x) == IF x < 0 THEN -x ELSE x

RECURSIVE GCD(_, _)
GCD(a, b) == IF b = 0 THEN a ELSE GCD(b, a % b)

\* The rational n/d (d # 0) in lowest terms with a positive denominator.
Rat(n, d) ==
    LET g == GCD(Abs(n), Abs(d))
        sgn == IF d < 0 THEN -1 ELSE 1
    IN  [num |-> (sgn * n) \div g, den |-> (sgn * d) \div g]

NaN == [num |-> 0, den |-> 0]
Infinity(sign) == [num |-> sign, den |-> 0]
IsFinite(a) == a.den # 0
IsNaN(a) == a.den = 0 /\ a.num = 0

\* Accumulator(d): the Accumulator holding the duration d.
Accumulator(d) == Rat(d, 1)

\* operator+ , operator- of the Accumulator.
Plus(a, b) ==
    IF IsFinite(a) /\ IsFinite(b)
    THEN Rat(a.num * b.den + b.num * a.den, a.den * b.den)
    ELSE IF IsFinite(b) THEN a ELSE IF IsFinite(a) THEN b
    ELSE IF a = b THEN a ELSE NaN

Negate(a) == [num |-> -a.num, den |-> a.den]

Minus(a, b) == Plus(a, Negate(b))

\* operator/ of the Accumulator by a size_t count.
DivideByCount(a, k) ==
    IF ~IsFinite(a) THEN a
    ELSE IF k # 0 THEN Rat(a.num, a.den * k)
    ELSE IF a.num = 0 THEN NaN
    ELSE Infinity(IF a.num < 0 THEN -1 ELSE 1)

\* detail::multiply
multiply(a1, a2) ==
    IF IsFinite(a1) /\ IsFinite(a2)
    THEN Rat(a1.num * a2.num, a1.den * a2.den)
    ELSE IF IsNaN(a1) \/ IsNaN(a2) \/ a1.num = 0 \/ a2.num = 0 THEN NaN
    ELSE Infinity(IF (a1.num < 0) = (a2.num < 0) THEN 1 ELSE -1)

\* The largest j >= k with j * j dividing m, or `best` if there is none.
RECURSIVE SquarePart(_, _, _)
SquarePart(m, k, best) ==
    IF k * k > m THEN best
    ELSE SquarePart(m, k + 1, IF m % (k * k) = 0 THEN k ELSE best)

\* detail::sqrt: the real square root, exactly, as (num/den) * sqrt(rad) with rad
\* square-free; NaN for a negative or NaN argument.
sqrt(a) ==
    IF IsNaN(a) \/ a.num < 0 THEN [num |-> 0, den |-> 0, rad |-> 1]
    ELSE IF ~IsFinite(a) THEN [num |-> 1, den |-> 0, rad |-> 1]
    ELSE IF a.num = 0 THEN [num |-> 0, den |-> 1, rad |-> 1]
    ELSE LET m == a.num * a.den
             k == SquarePart(m, 1, 1)
             c == Rat(k, a.den)
         IN  [num |-> c.num, den |-> c.den, rad |-> m \div (k * k)]

(***************************************************************************)
(* Benchmarker::State                                                      *)
(***************************************************************************)
Zero == Accumulator(0)

\* A State that starts from the mean last reported instead of zero, as one State
\* object reused across benchmarks would.
NewState_carried(iterations) ==
    [alive |-> TRUE, iterations_ |-> iterations, iteration_ |-> 0,
     mean_ |-> IF reports = <<>> THEN Accumulator(0) ELSE reports[Len(reports)].mean,
     squared_differences_ |-> Accumulator(0)]

\* State(size_t iterations) with the default member initialisers.
NewState(iterations) ==
    [alive |-> TRUE, iterations_ |-> iterations, iteration_ |-> 0,
     mean_ |-> Zero, squared_differences_ |-> Zero]

\* No State object exists (outside the body of the loop of runBenchmarks).
NoState ==
    [alive |-> FALSE, iterations_ |-> 0, iteration_ |-> 0,
     mean_ |-> Zero, squared_differences_ |-> Zero]

\* update with the running mean advanced by delta instead of delta / iteration_.
update_undivided(st, d) ==
    LET iteration == (st.iteration_ + 1) % SizeMod
        value == Accumulator(d)
        delta == Minus(value, st.mean_)
        mean == Plus(st.mean_, delta)
        delta2 == Minus(value, mean)
    IN  [st EXCEPT !.iteration_ = iteration,
                   !.mean_ = mean,
                   !.squared_differences_ = Plus(@, multiply(delta, delta2))]

\* An update whose second difference is taken the wrong way round.
update_reversed(st, d) ==
    LET iteration == (st.iteration_ + 1) % SizeMod
        value == Accumulator(d)
        delta == Minus(value, st.mean_)
        mean == Plus(st.mean_, DivideByCount(delta, iteration))
        delta2 == Minus(mean, value)
    IN  [st EXCEPT !.iteration_ = iteration,
                   !.mean_ = mean,
                   !.squared_differences_ = Plus(@, multiply(delta, delta2))]

\* State::update: Welford's algorithm.
update(st, d) ==
    LET iteration == (st.iteration_ + 1) % SizeMod
        value == Accumulator(d)
        delta == Minus(value, st.mean_)
        mean == Plus(st.mean_, DivideByCount(delta, iteration))
        delta2 == Minus(value, mean)
    IN  [st EXCEPT !.iteration_ = iteration,
                   !.mean_ = mean,
                   !.squared_differences_ = Plus(@, multiply(delta, delta2))]

\* done with > for >=.
done_strict(st) == st.iteration_ > st.iterations_

\* State::done
done(st) == st.iteration_ >= st.iterations_

\* A divisor without Bessel's correction.
Divisor_population(st) == st.iterations_ % SizeMod

\* The divisor iterations_ - 1 of State::report, in size_t arithmetic.
Divisor(st) == (st.iterations_ - 1) % SizeMod

\* The standard deviation State::report computes.
StandardDeviation(st) == sqrt(DivideByCount(st.squared_differences_, Divisor(st)))

\* The arguments State::report passes to Reporter::report.
\* A report that passes the number of samples measured as the iteration count.
ReportCall_measured(st, name) ==
    [name |-> name, iterations |-> st.iteration_, mean |-> st.mean_,
     sd |-> StandardDeviation(st)]

\* The call State::report makes: Reporter::report(name, iterations_, mean_,
\* Accumulator(detail::sqrt(squared_differences_ / (iterations_ - 1)))).
ReportCall(st, name) ==
    [name |-> name, iterations |-> st.iterations_, mean |-> st.mean_,
     sd |-> StandardDeviation(st)]

(***************************************************************************)
(* The same State with a duration-like Accumulator: a wrapper around a     *)
(* magnitude read with count(), such as std::chrono::duration<double>,     *)
(* which has +, - and / by a count but no operator* and no ::sqrt.         *)
(***************************************************************************)
Duration(magnitude) == [count |-> magnitude]

DurationPlus(a, b) == Duration(Plus(a.count, b.count))
DurationMinus(a, b) == Duration(Minus(a.count, b.count))
DurationDivideByCount(a, k) == Duration(DivideByCount(a.count, k))

\* A multiply that squares its first operand.
multiply_count_first(a1, a2) == Duration(multiply(a1.count, a1.count))

\* detail::multiply for types with count(): Accumulator(a1.count() * a2.count()).
multiply_count(a1, a2) == Duration(multiply(a1.count, a2.count))

\* detail::sqrt for types with count(): ::sqrt(a.count()).
sqrt_count(a) == sqrt(a.count)

NewDurationState(iterations) ==
    [alive |-> TRUE, iterations_ |-> iterations, iteration_ |-> 0,
     mean_ |-> Duration(Zero), squared_differences_ |-> Duration(Zero)]

\* State::update, instantiated for the duration-like Accumulator.
update_duration(st, d) ==
    LET iteration == (st.iteration_ + 1) % SizeMod
        value == Duration(Accumulator(d))
        delta == DurationMinus(value, st.mean_)
        mean == DurationPlus(st.mean_, DurationDivideByCount(delta, iteration))
        delta2 == DurationMinus(value, mean)
    IN  [st EXCEPT !.iteration_ = iteration,
                   !.mean_ = mean,
                   !.squared_differences_ =
                       DurationPlus(@, multiply_count(delta, delta2))]

\* The standard deviation State::report computes for the duration-like
\* Accumulator: Accumulator(detail::sqrt(squared_differences_ / (iterations_ - 1))).
StandardDeviation_duration(st) ==
    Duration(sqrt_count(DurationDivideByCount(st.squared_differences_, Divisor(st))))

\* The State a loop over the duration-like Accumulator holds after the updates
\* with the durations of `seq`, from the State `st`.
RECURSIVE DurationRun(_, _)
DurationRun(st, seq) ==
    IF seq = <<>> THEN st
    ELSE DurationRun(update_duration(st, Head(seq)), Tail(seq))

NoTimer == [active |-> FALSE, start |-> 0]

(***************************************************************************)
(* Benchmarker                                                             *)
(***************************************************************************)
\* Benchmarker(size_t default_iterations)
InitWith(defaults) ==
    /\ default_iterations_ \in defaults
    /\ evaluators = <<>>
    /\ registered = <<>>
    /\ pc = "idle"
    /\ index = 0
    /\ runs = 0
    /\ s = NoState
    /\ cursor = "none"
    /\ timer = NoTimer
    /\ flow = "none"
    /\ clock = 0
    /\ reports = <<>>
    /\ samples = <<>>
    /\ bodies = 0
    /\ outcome = "none"
    /\ reads = 0

\* The Evaluator a registration stores.
Evaluator(name, e, iterations) ==
    [name |-> name, function |-> e, iterations |-> iterations]

\* registerBenchmark(name, e, iterations); the name is the function's, as
\* EMB_MAKE_BENCHMARK passes it.
registerBenchmark(maxBenchmarks, counts) ==
    /\ pc = "idle"
    /\ runs = 0
    /\ Len(evaluators) < maxBenchmarks
    /\ \E e \in Functions, iterations \in counts :
          /\ evaluators' = Append(evaluators, Evaluator(e, e, iterations))
          /\ registered' = Append(registered, Evaluator(e, e, <<iterations>>))
    /\ UNCHANGED <<default_iterations_, pc, index, runs, s, cursor, timer, flow,
                   clock, reports, samples, bodies, outcome,
                   reads>>

\* An Evaluator with a count of one instead of the constructor's argument.
DefaultEvaluator_one(name, e) == Evaluator(name, e, 1)

\* The Evaluator registerBenchmark(name, e) stores: the default number of iterations.
DefaultEvaluator(name, e) == Evaluator(name, e, default_iterations_)

\* registerBenchmark(name, e)
registerBenchmarkDefault(maxBenchmarks) ==
    /\ pc = "idle"
    /\ runs = 0
    /\ Len(evaluators) < maxBenchmarks
    /\ \E e \in Functions :
          /\ evaluators' = Append(evaluators, DefaultEvaluator(e, e))
          /\ registered' = Append(registered, Evaluator(e, e, <<>>))
    /\ UNCHANGED <<default_iterations_, pc, index, runs, s, cursor, timer, flow,
                   clock, reports, samples, bodies, outcome,
                   reads>>

\* runBenchmarks is called: its range-for starts at the first Evaluator.
runBenchmarksCall(maxRuns) ==
    /\ pc = "idle"
    /\ runs < maxRuns
    /\ pc' = "next"
    /\ index' = 1
    /\ outcome' = "none"
    /\ UNCHANGED <<default_iterations_, evaluators, registered, runs, s, cursor,
                   timer, flow, clock, reports, samples, bodies,
                   reads>>

\* State s(e.iterations) for the next Evaluator e.
ConstructState ==
    /\ pc = "next"
    /\ index <= Len(evaluators)
    /\ s' = NewState(evaluators[index].iterations)
    /\ samples' = <<>>
    /\ bodies' = 0
    /\ outcome' = "running"
    /\ reads' = 0
    /\ pc' = "invoke"
    /\ UNCHANGED <<default_iterations_, evaluators, registered, index, runs, cursor,
                   timer, flow, clock, reports>>

\* A runBenchmarks that drains the registry when it returns.
runBenchmarksReturn_drained ==
    /\ pc = "next"
    /\ index > Len(evaluators)
    /\ pc' = "idle"
    /\ index' = 0
    /\ runs' = runs + 1
    /\ evaluators' = <<>>
    /\ UNCHANGED <<default_iterations_, registered, s, cursor, timer, flow, clock,
                   reports, samples, bodies, outcome, reads>>

\* The range-for of runBenchmarks is past the last Evaluator: runBenchmarks returns.
runBenchmarksReturn ==
    /\ pc = "next"
    /\ index > Len(evaluators)
    /\ pc' = "idle"
    /\ index' = 0
    /\ runs' = runs + 1
    /\ UNCHANGED <<default_iterations_, evaluators, registered, s, cursor, timer,
                   flow, clock, reports, samples, bodies, outcome,
                   reads>>

\* e.function(s): the function starts its range-for over the State (State::begin
\* and State::end), or, if it is the caller's own, may return without one.
InvokeFunction ==
    /\ pc = "invoke"
    /\ \/ /\ cursor' = "bound"
          /\ pc' = "test"
          /\ outcome' = outcome
       \/ /\ evaluators[index].function = "benchmark_custom"
          /\ cursor' = cursor
          /\ pc' = "report"
          /\ outcome' = "skipped"
    /\ UNCHANGED <<default_iterations_, evaluators, registered, index, runs, s,
                   timer, flow, clock, reports, samples, bodies,
                   reads>>

\* operator!= of the Iterator against State::end(), whose state is nullptr: the
\* loop goes on, or ends and the function returns.
LoopTest ==
    /\ pc = "test"
    /\ pc' = IF cursor # "null" THEN "deref" ELSE "report"
    /\ outcome' = IF cursor # "null" THEN outcome ELSE "completed"
    /\ UNCHANGED <<default_iterations_, evaluators, registered, index, runs, s,
                   cursor, timer, flow, clock, reports, samples, bodies,
                   reads>>

\* operator*: constructs the IterationTimer `_`, which reads Timer::now().
Dereference ==
    /\ pc = "deref"
    /\ timer' = [active |-> TRUE, start |-> clock]
    /\ reads' = reads + 1
    /\ pc' = "body"
    /\ UNCHANGED <<default_iterations_, evaluators, registered, index, runs, s,
                   cursor, flow, clock, reports, samples, bodies, outcome>>

\* The ways the body of a function's loop can be left.
PathsOf(function) ==
    IF function = "benchmark_empty" THEN {"normal"} ELSE ExitPaths

\* The loop body runs for some ticks and is left along one of its exit paths.
Body(ticks) ==
    /\ pc = "body"
    /\ \E t \in ticks, path \in PathsOf(evaluators[index].function) :
          /\ clock' = clock + t
          /\ flow' = path
    /\ bodies' = bodies + 1
    /\ pc' = "release"
    /\ UNCHANGED <<default_iterations_, evaluators, registered, index, runs, s,
                   cursor, timer, reports, samples, outcome,
                   reads>>

\* An update made at the end of the body instead of by a destructor: it is skipped
\* when the body is left early.
Released_normal_only(st, tm, now, path) ==
    IF path = "normal" THEN update(st, now - tm.start) ELSE st

\* An IterationTimer that measures from the clock's epoch instead of from its own
\* construction.
Released_since_epoch(st, tm, now, path) == update(st, now)

\* ~IterationTimer on leaving the iteration's scope along `path`: reads
\* Timer::now() and calls state.update(now - start).  `_` is the object operator*
\* returns: the copy into `_` is elided (guaranteed since C++17).
Released(st, tm, now, path) == update(st, now - tm.start)

\* Where control goes once `_` is destroyed.
After(path) ==
    CASE path = "normal" -> "increment"
      [] path \in {"break", "return"} -> "report"
      [] path = "throw" -> "unwind"

ReleaseTimer ==
    /\ pc = "release"
    /\ s' = Released(s, timer, clock, flow)
    /\ samples' = IF s'.iteration_ # s.iteration_
                  THEN Append(samples, clock - timer.start) ELSE samples
    /\ timer' = NoTimer
    /\ reads' = reads + 1
    /\ flow' = "none"
    /\ outcome' = IF flow = "normal" THEN outcome ELSE flow
    /\ pc' = After(flow)
    /\ UNCHANGED <<default_iterations_, evaluators, registered, index, runs, cursor,
                   clock, reports, bodies>>

\* operator++ of the Iterator: ends the loop if state->done().
Increment ==
    /\ pc = "increment"
    /\ cursor' = IF done(s) THEN "null" ELSE cursor
    /\ clock' = clock + GapTicks
    /\ pc' = "test"
    /\ UNCHANGED <<default_iterations_, evaluators, registered, index, runs, s,
                   timer, flow, reports, samples, bodies, outcome,
                   reads>>

\* A report that is not made.
Reported_skipped(log, st, name) == log

\* The Reporter's calls once s.report<Reporter>(e.name) has run.
Reported(log, st, name) == Append(log, ReportCall(st, name))

\* The function has returned: s.report<Reporter>(e.name), then s is destroyed and
\* the range-for of runBenchmarks advances.
Report ==
    /\ pc = "report"
    /\ reports' = Reported(reports, s, evaluators[index].name)
    /\ s' = NoState
    /\ cursor' = "none"
    /\ index' = index + 1
    /\ pc' = "next"
    /\ UNCHANGED <<default_iterations_, evaluators, registered, runs, timer, flow,
                   clock, samples, bodies, outcome,
                   reads>>

\* A runBenchmarks that catches the exception of a benchmark and goes on with the
\* next one.
Propagate_swallowed ==
    /\ pc = "unwind"
    /\ s' = NoState
    /\ cursor' = "none"
    /\ index' = index + 1
    /\ pc' = "next"
    /\ UNCHANGED <<default_iterations_, evaluators, registered, runs, timer, flow,
                   clock, reports, samples, bodies, outcome, reads>>

\* An exception thrown by the body leaves the function and runBenchmarks, which
\* has no handler: s is destroyed and the caller receives the exception.
Propagate ==
    /\ pc = "unwind"
    /\ s' = NoState
    /\ cursor' = "none"
    /\ pc' = "propagated"
    /\ UNCHANGED <<default_iterations_, evaluators, registered, index, runs, timer,
                   flow, clock, reports, samples, bodies, outcome,
                   reads>>

(***************************************************************************)
(* Specifications.                                                         *)
(***************************************************************************)
\* The steps that need no input.
Step ==
    \/ ConstructState
    \/ runBenchmarksReturn
    \/ InvokeFunction
    \/ LoopTest
    \/ Dereference
    \/ ReleaseTimer
    \/ Increment
    \/ Report
    \/ Propagate

\* A harness with up to MaxBenchmarks benchmarks, run once; a body takes no
\* measurable time or MaxTicks ticks.
Init == InitWith({MaxIterations})

Next ==
    \/ registerBenchmark(MaxBenchmarks, 0..MaxIterations)
    \/ registerBenchmarkDefault(MaxBenchmarks)
    \/ runBenchmarksCall(1)
    \/ Body({0, MaxTicks})
    \/ Step

Spec == Init /\ [][Next]_vars

\* A harness with a single benchmark, run once, with longer loops and a wider
\* range of elapsed durations.
InitStats == InitWith({StatsMaxIterations})

NextStats ==
    \/ registerBenchmark(1, 0..StatsMaxIterations)
    \/ registerBenchmarkDefault(1)
    \/ runBenchmarksCall(1)
    \/ Body(0..StatsMaxTicks)
    \/ Step

SpecStats == InitStats /\ [][NextStats]_vars

\* A harness with up to RerunMaxBenchmarks benchmarks on which runBenchmarks is
\* called twice; every body takes MaxTicks ticks.
InitRerun == InitWith({RerunMaxIterations})

NextRerun ==
    \/ registerBenchmark(RerunMaxBenchmarks, 0..RerunMaxIterations)
    \/ registerBenchmarkDefault(RerunMaxBenchmarks)
    \/ runBenchmarksCall(2)
    \/ Body({MaxTicks})
    \/ Step

SpecRerun == InitRerun /\ [][NextRerun]_vars

(***************************************************************************)
(* Reference statistics of a sequence of samples.                          *)
(***************************************************************************)
Last(seq) == seq[Len(seq)]

RECURSIVE Sum(_)
Sum(seq) == IF seq = <<>> THEN 0 ELSE Head(seq) + Sum(Tail(seq))

\* The arithmetic mean of a non-empty sequence of integer samples.
ArithmeticMean(seq) == Rat(Sum(seq), Len(seq))

\* The sum over the samples x of (x - m)^2.
RECURSIVE SquaredDeviations(_, _)
SquaredDeviations(seq, m) ==
    IF seq = <<>> THEN Zero
    ELSE LET dev == Minus(Accumulator(Head(seq)), m)
         IN  Plus(multiply(dev, dev), SquaredDeviations(Tail(seq), m))

\* The Bessel-corrected sample standard deviation of two or more samples.
SampleStandardDeviation(seq) ==
    LET m2 == SquaredDeviations(seq, ArithmeticMean(seq))
    IN  sqrt(Rat(m2.num, m2.den * (Len(seq) - 1)))

\* The function of the benchmark last reported drove its range loop to the end.
LoopCompleted == pc = "next" /\ outcome = "completed" /\ reports # <<>>

(***************************************************************************)
(* Claims.                                                                 *)
(***************************************************************************)
\* C1: for a target count n >= 1, once the function has driven the range loop to
\* completion, n samples were recorded and the mean passed to the Reporter is their
\* arithmetic mean (the single sample for n = 1).
C1_MeanIsArithmeticMean ==
    (LoopCompleted /\ Last(reports).iterations >= 1) =>
        /\ Len(samples) = Last(reports).iterations
        /\ Last(reports).mean = ArithmeticMean(samples)

\* A completed loop of three or more unequal samples whose mean is no integer.
C1_Witness ==
    /\ LoopCompleted
    /\ Len(samples) >= 3
    /\ Last(reports).mean.den > 1
    /\ \E i, j \in 1..Len(samples) : samples[i] # samples[j]

\* C2: for a target count n >= 2, when the completed loop's State is reported its
\* squared_differences_ is the sum of the squared deviations of the n samples from
\* their arithmetic mean, and the standard deviation passed to the Reporter is the
\* Bessel-corrected sample standard deviation sqrt(M2 / (n - 1)).
C2_BesselStandardDeviation ==
    /\ (pc = "report" /\ outcome = "completed" /\ s.iterations_ >= 2) =>
          /\ Len(samples) = s.iterations_
          /\ s.squared_differences_ =
                SquaredDeviations(samples, ArithmeticMean(samples))
    /\ (LoopCompleted /\ Last(reports).iterations >= 2) =>
          Last(reports).sd = SampleStandardDeviation(samples)

\* A completed loop of three or more samples with an irrational standard deviation.
C2_Witness ==
    /\ LoopCompleted
    /\ Len(samples) >= 3
    /\ Last(reports).iterations = Len(samples)
    /\ Last(reports).sd.rad > 1

\* The count the i-th registerBenchmark call asked for.
CountAsked(i) ==
    IF registered[i].iterations = <<>> THEN default_iterations_
    ELSE registered[i].iterations[1]

\* C3: once runBenchmarks has returned, the Reporter has been called once per
\* registered benchmark, in registration order, the i-th call with the i-th
\* registration's name and its iteration count, or the constructor's default if the
\* registration gave none.
C3_ReportsInRegistrationOrder ==
    (pc = "idle" /\ runs = 1) =>
        /\ Len(reports) = Len(registered)
        /\ \A i \in 1..Len(registered) :
              /\ reports[i].name = registered[i].name
              /\ reports[i].iterations = CountAsked(i)

\* A returned run of two benchmarks with different names, one registered with a
\* count and one without, with different counts.
C3_Witness ==
    /\ pc = "idle"
    /\ runs = 1
    /\ Len(registered) = 2
    /\ registered[1].name # registered[2].name
    /\ registered[1].iterations = <<>>
    /\ registered[2].iterations # <<>>
    /\ reports[1].iterations # reports[2].iterations

\* The current benchmark's function is the example's range-for over the State.
DrivesLoop == s.alive /\ evaluators[index].function = "benchmark_empty"

\* C4: with a target of 0 the loop body never runs and update is never called, so
\* mean_ and squared_differences_ stay zero.
C4_ZeroTargetSkipsBody ==
    (DrivesLoop /\ s.iterations_ = 0) =>
        /\ bodies = 0
        /\ s.iteration_ = 0
        /\ s.mean_ = Zero
        /\ s.squared_differences_ = Zero

\* C5: 0 <= iteration_ <= iterations_ throughout a benchmark's run, for every
\* target count including 0.
C5_IterationWithinTarget ==
    DrivesLoop => (0 <= s.iteration_ /\ s.iteration_ <= s.iterations_)

\* C6: for a target of 0, what report computes is no NaN and no quotient by zero
\* or by a divisor that wrapped around.
C6_ZeroTargetDefinedResult ==
    (pc = "report" /\ s.iterations_ = 0) =>
        /\ Divisor(s) = s.iterations_ - 1
        /\ Divisor(s) # 0
        /\ StandardDeviation(s).den # 0

\* C7: for a target of 1, report never divides by zero and passes no NaN as the
\* standard deviation.
C7_OneTargetNoZeroDivision ==
    /\ (pc = "report" /\ s.iterations_ = 1) => Divisor(s) # 0
    /\ \A i \in 1..Len(reports) :
          reports[i].iterations = 1 => reports[i].sd.den # 0

\* C8: for a target n >= 1 a function driving the range loop runs the body exactly
\* n times, with one update each, and the loop is finished (done() true, the
\* Iterator switched to nullptr) only once iteration_ = n.
C8_ExactlyTargetIterations ==
    (DrivesLoop /\ s.iterations_ >= 1) =>
        /\ bodies <= s.iterations_
        /\ done(s) <=> s.iteration_ = s.iterations_
        /\ cursor = "null" => s.iteration_ = s.iterations_
        /\ (pc = "test" /\ cursor = "bound") => ~done(s)
        /\ outcome = "completed" =>
              /\ bodies = s.iterations_
              /\ Len(samples) = s.iterations_
              /\ s.iteration_ = s.iterations_

\* The loop of a benchmark with a target of three or more has just ended.
C8_Witness ==
    /\ DrivesLoop
    /\ pc = "report"
    /\ outcome = "completed"
    /\ s.iterations_ >= 3
    /\ bodies = s.iterations_

\* C9: an IterationTimer exists exactly while the body runs or is being left; the
\* step that destroys it, along whichever exit path, makes exactly one update,
\* with the duration since its start; and no other step of a benchmark updates.
C9_TimerFeedsOneSample ==
    [][ /\ timer.active <=> pc \in {"body", "release"}
        /\ (timer.active /\ ~timer'.active) =>
              /\ s'.iteration_ = s.iteration_ + 1
              /\ s' = update(s, clock - timer.start)
              /\ samples' = Append(samples, clock - timer.start)
        /\ (s.alive /\ s'.alive /\ s' # s) => (timer.active /\ ~timer'.active)
      ]_vars

\* The timers of a benchmark whose body threw at its second iteration or later have
\* each fed one sample.
C9_Witness ==
    /\ outcome = "throw"
    /\ pc = "unwind"
    /\ bodies >= 2
    /\ Len(samples) = bodies
    /\ s.iteration_ = bodies

\* C10: while benchmark i runs (its State exists) the Reporter has been called for
\* benchmarks 1..i-1 and no other; when the next State is about to be created the
\* previous State is gone and has been reported.
C10_ReportBetweenBenchmarks ==
    /\ s.alive <=> pc \in {"invoke", "test", "deref", "body", "release", "increment",
                           "report", "unwind"}
    /\ s.alive => index \in 1..Len(evaluators)
    /\ pc \in {"next", "invoke", "test", "deref", "body", "release", "increment",
               "report", "unwind"} =>
          /\ Len(reports) = index - 1
          /\ \A i \in 1..Len(reports) : reports[i].name = evaluators[i].name

\* The second benchmark's body runs after the first has been reported.
C10_Witness ==
    /\ pc = "body"
    /\ index = 2
    /\ Len(reports) = 1

\* C11: when the function of benchmark k throws, the exception leaves
\* runBenchmarks: the Reporter has been called for benchmarks 1..k-1 only, it is
\* not called for benchmark k, and nothing runs afterwards.
C11_FailurePropagates ==
    [][ /\ pc = "unwind" =>
              /\ pc' = "propagated"
              /\ index' = index
              /\ ~s'.alive
              /\ reports' = reports
              /\ Len(reports) = index - 1
              /\ \A i \in 1..Len(reports) : reports[i].name = evaluators[i].name
        /\ pc = "propagated" => UNCHANGED vars
      ]_vars

\* The exception of the first of two benchmarks has reached the caller: nothing was
\* reported and the second benchmark did not run.
C11_Witness ==
    /\ pc = "propagated"
    /\ index = 1
    /\ Len(evaluators) = 2
    /\ reports = <<>>
    /\ runs = 0

\* The mean and the sum of squared deviations Welford's algorithm should hold after
\* the given samples.
MeanOf(seq) == IF seq = <<>> THEN Zero ELSE ArithmeticMean(seq)
SquaredDeviationsOf(seq) == SquaredDeviations(seq, MeanOf(seq))

\* C12: each function is invoked with a fresh State (iteration_, mean_ and
\* squared_differences_ zero, iterations_ the entry's count), and what is reported
\* for a benchmark is determined by its own samples and count alone: the mean of
\* its samples and sqrt of their squared deviations over iterations_ - 1.
C12_FreshStatePerBenchmark ==
    /\ pc = "invoke" => s = [alive |-> TRUE,
                             iterations_ |-> evaluators[index].iterations,
                             iteration_ |-> 0,
                             mean_ |-> Zero,
                             squared_differences_ |-> Zero]
    /\ s.alive =>
          /\ s.iterations_ = evaluators[index].iterations
          /\ s.iteration_ = Len(samples)
          /\ s.mean_ = MeanOf(samples)
          /\ s.squared_differences_ = SquaredDeviationsOf(samples)
    /\ (pc = "next" /\ index > 1) =>
          /\ reports[index - 1].iterations = evaluators[index - 1].iterations
          /\ reports[index - 1].mean = MeanOf(samples)
          /\ reports[index - 1].sd =
                sqrt(DivideByCount(SquaredDeviationsOf(samples),
                                   (evaluators[index - 1].iterations - 1) % SizeMod))

\* The second benchmark has been reported with a mean other than the first's.
C12_Witness ==
    /\ pc = "next"
    /\ index = 3
    /\ Len(samples) >= 2
    /\ reports[1].mean # Zero
    /\ reports[2].mean # reports[1].mean

\* C13: the registry only grows, by one entry at its end per registerBenchmark
\* call and never while runBenchmarks runs or returns; a second runBenchmarks call
\* therefore reports the same entries in the same order as the first.
C13_RegistryAppendOnly ==
    [][ /\ evaluators' # evaluators =>
              /\ pc = "idle"
              /\ pc' = "idle"
              /\ Len(evaluators') = Len(evaluators) + 1
              /\ SubSeq(evaluators', 1, Len(evaluators)) = evaluators
        /\ (pc' = "idle" /\ runs' = 2) =>
              LET n == Len(evaluators')
              IN  /\ Len(reports') = 2 * n
                  /\ \A i \in 1..n :
                        /\ reports'[i].name = evaluators'[i].name
                        /\ reports'[i].iterations = evaluators'[i].iterations
                        /\ reports'[n + i].name = evaluators'[i].name
                        /\ reports'[n + i].iterations = evaluators'[i].iterations
      ]_vars

\* Two different benchmarks have been run and reported twice, with different
\* measurements in the two runs.
C13_Witness ==
    /\ pc = "idle"
    /\ runs = 2
    /\ Len(evaluators) = 2
    /\ evaluators[1] # evaluators[2]
    /\ Len(reports) = 4
    /\ reports[3].mean # reports[1].mean

\* The State of a Benchmarker with the duration-like Accumulator that has measured
\* the durations the current State has.
DurationState == DurationRun(NewDurationState(s.iterations_), samples)

ShortRun ==
    /\ pc = "next"
    /\ index > 1
    /\ outcome \in {"skipped", "break", "return"}
    /\ Len(samples) < evaluators[index - 1].iterations

\* C15: a function that records only k < n samples for its registered count n is
\* not detected: runBenchmarks goes on, the Reporter has been called exactly once
\* for the benchmark, with n as the iteration count, with the mean of the k samples
\* and with the standard deviation computed from the M2 of the k samples and the
\* divisor n - 1.
C15_ShortRunReportedAsFull ==
    ShortRun =>
        LET r == reports[index - 1]
            n == evaluators[index - 1].iterations
        IN  /\ Len(reports) = index - 1
            /\ r.name = evaluators[index - 1].name
            /\ r.iterations = n
            /\ r.mean = MeanOf(samples)
            /\ r.sd = sqrt(DivideByCount(SquaredDeviationsOf(samples),
                                         (n - 1) % SizeMod))

\* A function registered for two iterations left its loop by break after one
\* sample of one tick and has been reported.
C15_Witness ==
    /\ ShortRun
    /\ outcome = "break"
    /\ samples = <<MaxTicks>>
    /\ reports[index - 1].iterations = 2
    /\ reports[index - 1].mean = Accumulator(MaxTicks)

\* a >= b, for finite a and b.
NotBelow(a, b) ==
    /\ a.den > 0
    /\ b.den > 0
    /\ a.num * b.den >= b.num * a.den

Smallest(seq) ==
    CHOOSE x \in {seq[i] : i \in 1..Len(seq)} : \A i \in 1..Len(seq) : x <= seq[i]

Largest(seq) ==
    CHOOSE x \in {seq[i] : i \in 1..Len(seq)} : \A i \in 1..Len(seq) : x >= seq[i]

\* The variance State::report hands to detail::sqrt.
Variance(st) == DivideByCount(st.squared_differences_, Divisor(st))

\* C16: with a clock that never goes back (every sample >= 0), each update leaves
\* a mean that is >= 0 and lies between the smallest and the largest sample so far,
\* and a squared_differences_ that is >= 0 and not below its value before the
\* update; and a report for a target of two or more takes the square root of a
\* variance >= 0 and passes a standard deviation >= 0.
C16_NonNegativeStatistics ==
    [][ /\ ( /\ s.alive /\ s'.alive
             /\ s'.iteration_ # s.iteration_
             /\ \A i \in 1..Len(samples') : samples'[i] >= 0 ) =>
                /\ NotBelow(s'.mean_, Zero)
                /\ NotBelow(s'.mean_, Accumulator(Smallest(samples')))
                /\ NotBelow(Accumulator(Largest(samples')), s'.mean_)
                /\ NotBelow(s'.squared_differences_, Zero)
                /\ NotBelow(s'.squared_differences_, s.squared_differences_)
        /\ ( /\ pc = "report" /\ pc' = "next"
             /\ s.iterations_ >= 2
             /\ \A i \in 1..Len(samples) : samples[i] >= 0 ) =>
                /\ NotBelow(Variance(s), Zero)
                /\ Last(reports').sd = sqrt(Variance(s))
                /\ Last(reports').sd.num >= 0
                /\ Last(reports').sd.den > 0
      ]_vars

\* Three or more samples, not all equal, have been measured for a target of three
\* or more and reported: the mean lies strictly between the extremes and the
\* standard deviation is positive.
C16_Witness ==
    /\ pc = "next"
    /\ index = 2
    /\ Len(samples) >= 3
    /\ Smallest(samples) < Largest(samples)
    /\ reports[1].iterations >= 3
    /\ reports[1].mean.num > Smallest(samples) * reports[1].mean.den
    /\ reports[1].mean.num < Largest(samples) * reports[1].mean.den
    /\ reports[1].sd.num > 0

\* C17: an iteration runs in the order: operator* reads the clock into the timer's
\* start, the body runs, ~IterationTimer reads the clock and updates the State
\* with that reading minus start, and operator++ then makes the done check.  The
\* clock has been read twice per finished iteration and once more while a timer is
\* in scope, and the ticks spent in operator++ between two iterations are in no
\* sample: the clock is ahead of the samples' sum by those ticks.
C17_IterationEventOrder ==
    [][ /\ reads = 2 * Len(samples) + (IF timer.active THEN 1 ELSE 0)
        /\ pc = "deref" =>
              /\ pc' = "body"
              /\ timer' = [active |-> TRUE, start |-> clock]
              /\ reads' = reads + 1
              /\ s' = s /\ samples' = samples /\ clock' = clock
              /\ clock = Sum(samples) + GapTicks * Len(samples)
        /\ pc = "body" =>
              /\ pc' = "release"
              /\ timer' = timer /\ timer.active
              /\ clock' >= clock
              /\ reads' = reads
              /\ s' = s /\ samples' = samples
        /\ pc = "release" =>
              /\ pc' \in {"increment", "report", "unwind"}
              /\ reads' = reads + 1
              /\ clock' = clock
              /\ s' = update(s, clock - timer.start)
              /\ samples' = Append(samples, clock - timer.start)
              /\ ~timer'.active
        /\ pc = "increment" =>
              /\ pc' = "test"
              /\ cursor' = (IF done(s) THEN "null" ELSE cursor)
              /\ clock' = clock + GapTicks
              /\ reads' = reads
              /\ s' = s /\ samples' = samples
              /\ clock = Sum(samples) + GapTicks * (Len(samples) - 1)
      ]_vars

\* Two iterations with bodies of different lengths have finished: four clock
\* reads, and a clock ahead of the sum of the two samples.
C17_Witness ==
    /\ pc = "test"
    /\ Len(samples) = 2
    /\ samples[1] # samples[2]
    /\ reads = 4
    /\ clock = Sum(samples) + 2 * GapTicks
    /\ s.mean_ = ArithmeticMean(samples)

(***************************************************************************)
(* Termination.  runBenchmarks and the benchmark functions are sequential   *)
(* code: from a position inside runBenchmarks control moves on, a loop body *)
(* included, since each body is assumed to terminate.  Registration and the *)
(* call of runBenchmarks itself are left to the program.                    *)
(***************************************************************************)
\* The positions inside a call of runBenchmarks.
Running ==
    {"next", "invoke", "test", "deref", "body", "release", "increment", "report",
     "unwind"}

\* Control leaves its current position inside runBenchmarks.
Advance == pc \in Running /\ pc' \in (Running \cup {"idle", "propagated"}) \ {pc}

SpecStatsFair == InitStats /\ [][NextStats]_vars /\ WF_pc(Advance)

\* Inside runBenchmarks every step of the program moves control on.
AdvanceIsStep == [][(pc \in Running => Advance)]_vars

\* The range loop of the current function is entering or running an iteration.
LoopContinues == s.alive /\ pc \in {"deref", "body"}

\* Every benchmark called by runBenchmarks ends: runBenchmarks returns with one
\* report per registered benchmark, or an exception of a body has left it.
RunEnds ==
    \/ pc = "idle" /\ runs > 0 /\ Len(reports) = runs * Len(evaluators)
    \/ pc = "propagated"

\* Once called, runBenchmarks ends, whatever the registry and the target counts.
RunTerminates == (pc = "next") ~> RunEnds

\* iteration_ goes up by one at each update and is changed by nothing else
\* while the State lives.
IterationAdvances ==
    [][(s.alive /\ s'.alive) =>
          s'.iteration_ = s.iteration_ + (IF pc = "release" THEN 1 ELSE 0)]_vars

\* C18: for every registry and target count, 0 and 1 included, with bodies that
\* terminate: iteration_ strictly increases, runBenchmarks ends having reported
\* every registered benchmark, and in no state does the loop continue once done()
\* is true.
C18_TerminatesWithoutOvershoot ==
    /\ IterationAdvances
    /\ RunTerminates
    /\ [](LoopContinues => ~done(s))

====
